---- MODULE Spec2Model ----
(***************************************************************************)
(* Shutter calculator table (src/main.cpp): ND filter combinations, the    *)
(* shutter-time formatter and the Markdown / CSV table drivers.            *)
(*                                                                         *)
(* Text is a sequence of one-character strings, so that widths, padding    *)
(* and the marks ' and " of the formats are observable.                     *)
(*                                                                         *)
(* A double is the record [num, den, exp] standing for the real number     *)
(* num / den * 2^exp.  The Shutter constructors produce 1/n and            *)
(* (10*s + h)/10, taken as the real quotients (the rounding of 1.0/n and   *)
(* h/10.0 to the nearest double is left out), and the only arithmetic      *)
(* applied afterwards is the multiplication by the int (1 << stops), which *)
(* is exact in binary floating point; the comparisons, floor, ceil and     *)
(* round of doubleToString are evaluated on that real number.              *)
(***************************************************************************)
EXTENDS Integers, Sequences, FiniteSets, TLC

(***************************************************************************)
(* The 32-bit int of the build.                                            *)
(***************************************************************************)
INT_MAX == 2147483647
INT_MIN == (-2147483647) - 1

\* What a conversion of an out-of-range double (or infinity) to int may
\* yield: undefined behaviour; the "integer indefinite" value of x86 or the
\* saturated value of ARM.
OutOfRangeInts == {INT_MIN, INT_MAX}

\* C++ integer division and remainder truncate towards zero (b > 0 here).
CDiv(a, b) == IF a >= 0 THEN a \div b
              ELSE (a \div b) + (IF a % b = 0 THEN 0 ELSE 1)
CRem(a, b) == a - CDiv(a, b) * b

(***************************************************************************)
(* std::format of integers, characters and strings.                        *)
(***************************************************************************)
Digits == <<"0", "1", "2", "3", "4", "5", "6", "7", "8", "9">>

RECURSIVE Fill(_, _)
Fill(c, n) == IF n <= 0 THEN << >> ELSE <<c>> \o Fill(c, n - 1)

RECURSIVE NatToText(_)
NatToText(n) == IF n < 10 THEN <<Digits[n + 1]>>
                ELSE NatToText(n \div 10) \o <<Digits[(n % 10) + 1]>>

\* The decimal digits of |v| (computed without negating INT_MIN).
AbsToText(v) == IF v >= 0 THEN NatToText(v)
                ELSE LET q == CDiv(v, 10)
                         r == v - q * 10
                     IN  IF q = 0 THEN <<Digits[(-r) + 1]>>
                         ELSE NatToText(-q) \o <<Digits[(-r) + 1]>>

SignText(v) == IF v < 0 THEN <<"-">> ELSE << >>

\* "{:w}" of an int: right aligned, space filled, never truncated.
FormatInt(v, width) ==
    LET body == SignText(v) \o AbsToText(v)
    IN  Fill(" ", width - Len(body)) \o body

\* "{:0w}" of an int: zeros between the sign and the digits.
FormatIntZero(v, width) ==
    LET body == AbsToText(v)
    IN  SignText(v) \o Fill("0", width - Len(SignText(v)) - Len(body)) \o body

\* "{:w}" of a char: left aligned, space filled.
FormatChar(c, width) == <<c>> \o Fill(" ", width - 1)

\* "{: >w}" of a string: right aligned, space filled, never truncated.
FormatRight(text, width) == Fill(" ", width - Len(text)) \o text

(***************************************************************************)
(* struct Filter                                                           *)
(***************************************************************************)
Filter(stops, name) == [stops |-> stops, name |-> name]

\* Filter::operator+ with the labels joined in the wrong order.
FilterPlusSwapped(a, b) == [stops |-> a.stops + b.stops,
                            name  |-> b.name \o <<" ">> \o a.name]

\* Filter::operator+
FilterPlus(a, b) == [stops |-> a.stops + b.stops,
                     name  |-> a.name \o <<" ">> \o b.name]

\* Filter::operator<=> as used by std::sort: a < b
FilterLess(a, b) == a.stops < b.stops

\* Filter::toString
Filter_toString(f) == FormatRight(f.name, 7)

(***************************************************************************)
(* struct Shutter                                                          *)
(***************************************************************************)
\* Shutter(int initFraction): time = 1.0 / initFraction
ShutterFraction(initFraction) == [num |-> 1, den |-> initFraction, exp |-> 0]

\* Shutter(int initSeconds, int initHundredsMiliseconds)
ShutterSeconds(initSeconds, initHundredsMiliseconds) ==
    [num |-> 10 * initSeconds + initHundredsMiliseconds, den |-> 10, exp |-> 0]

(***************************************************************************)
(* Arithmetic on doubles [num, den, exp] = num / den * 2^exp.              *)
(***************************************************************************)
Abs(v) == IF v < 0 THEN -v ELSE v

\* round(a / b) for a >= 0, b > 0: std::round rounds halves away from zero.
RoundDiv(a, b) == (a \div b) + (IF (a % b) >= b - (a % b) THEN 1 ELSE 0)

\* Floor q and remainder r (value = q + r/den) of (q + r/den) * 2^k, with
\* big set when the floor exceeds INT_MAX.
RECURSIVE ScaleUp(_, _, _, _)
ScaleUp(q, r, den, k) ==
    IF k = 0 THEN [big |-> FALSE, q |-> q, r |-> r]
    ELSE LET c  == IF r >= den - r THEN 1 ELSE 0
             r2 == IF r >= den - r THEN r - (den - r) ELSE r + r
         IN  IF q > (INT_MAX - c) \div 2 THEN [big |-> TRUE, q |-> 0, r |-> 0]
             ELSE ScaleUp(2 * q + c, r2, den, k - 1)

\* Whole and fractional part of |input|.
Whole(input) ==
    ScaleUp(Abs(input.num) \div input.den, Abs(input.num) % input.den,
            input.den, input.exp)

\* input < 0.25 in place of input <= 0.25.
LessEqQuarterStrict(input) ==
    LET w == Whole(input)
    IN  ~w.big /\ w.q = 0 /\ 4 * w.r < input.den

\* input <= 0.25 and input <= 30.0 for input > 0
LessEqQuarter(input) ==
    LET w == Whole(input)
    IN  ~w.big /\ w.q = 0 /\ w.r <= input.den \div 4

LessEqThirty(input) ==
    LET w == Whole(input)
    IN  ~w.big /\ (w.q < 30 \/ (w.q = 30 /\ w.r = 0))

\* (2 << stops) in place of (1 << stops).
ShiftInRangeDoubled(stops) == IF stops + 1 = 31 THEN [sgn |-> -1, exp |-> 31]
                              ELSE [sgn |-> 1, exp |-> stops + 1]

\* The int (1 << stops) as sgn * 2^exp.  Up to 30 the shift is the power of
\* two; 1 << 31 wraps to INT_MIN; a count of 32 or more is undefined
\* behaviour: the hardware masks the count to five bits, or yields 0.
ShiftInRange(stops) == IF stops = 31 THEN [sgn |-> -1, exp |-> 31]
                       ELSE [sgn |-> 1, exp |-> stops]

ShiftLeftOne(stops) ==
    IF stops <= 31 THEN {ShiftInRange(stops)}
    ELSE {ShiftInRange(stops % 32), [sgn |-> 0, exp |-> 0]}

\* time * (1 << stops): the int is converted to double and the product of a
\* double and a power of two is exact.
TimesInt(time, m) ==
    [num |-> time.num * m.sgn, den |-> time.den, exp |-> time.exp + m.exp]

(***************************************************************************)
(* Shutter::doubleToString.  ub is what the build yields for a conversion  *)
(* of an out-of-range double to int.                                       *)
(***************************************************************************)
\* static_cast<int>(std::round(1.0 / input)), input <= 0.25
RoundedReciprocal(input, ub) ==
    LET w == Whole(input)
    IN  IF input.num = 0 THEN ub
        ELSE IF input.num < 0
             THEN IF w.big \/ w.q >= 3 THEN 0
                  ELSE -RoundDiv(input.den, w.q * input.den + w.r)
        ELSE RoundDiv(input.den, w.r)

\* const int secondTotal = std::ceil(input), input > 30
SecondTotal(input, ub) ==
    LET w == Whole(input)
    IN  IF w.big THEN ub
        ELSE IF w.r = 0 THEN w.q
        ELSE IF w.q = INT_MAX THEN ub
        ELSE w.q + 1

BulbToString(secondTotal) ==
    LET minutesTotal == CDiv(secondTotal, 60)
        seconds      == CRem(secondTotal, 60)
        hours        == CDiv(minutesTotal, 60)
        minutes      == CRem(minutesTotal, 60)
    IN  IF minutesTotal <= 60
        THEN FormatInt(minutesTotal, 2) \o <<"'", " ">>
                 \o FormatIntZero(seconds, 2) \o <<"\"">>
        ELSE IF hours > 99
        THEN FormatChar("x", 7)
        ELSE FormatInt(hours, 2) \o <<"h", " ">>
                 \o FormatIntZero(minutes, 2) \o <<"'">>

doubleToString(input, ub) ==
    IF input.num <= 0 \/ LessEqQuarter(input)
    THEN FormatInt(RoundedReciprocal(input, ub), 7)
    ELSE IF LessEqThirty(input)
    THEN LET second   == Whole(input).q
             leftOver == RoundDiv(Whole(input).r * 10, input.den)
         IN  FormatInt(second, 5) \o <<"\"">> \o FormatInt(leftOver, 0)
    ELSE BulbToString(SecondTotal(input, ub))

\* Shutter::toString
Shutter_toString(time, ub) == doubleToString(time, ub)

\* Shutter::toStringWithFilterStops: the outcomes of time * (1 << stops)
increasedShutterTime(time, stops) ==
    {TimesInt(time, m) : m \in ShiftLeftOne(stops)}

toStringWithFilterStops(time, stops, ub) ==
    {doubleToString(t, ub) : t \in increasedShutterTime(time, stops)}

(***************************************************************************)
(* The tables of the program.                                              *)
(***************************************************************************)
\* The filter table with ND8 entered as 4 stops.
filtersMistyped == <<Filter(10, <<"1", "k">>),
                     Filter(6,  <<"6", "4">>),
                     Filter(4,  <<"8">>),
                     Filter(2,  <<"4">>)>>

filters == <<Filter(10, <<"1", "k">>),
             Filter(6,  <<"6", "4">>),
             Filter(3,  <<"8">>),
             Filter(2,  <<"4">>)>>

shutters == <<
    ShutterFraction(4000), ShutterFraction(3200), ShutterFraction(2500),
    ShutterFraction(2000), ShutterFraction(1600), ShutterFraction(1250),
    ShutterFraction(1000), ShutterFraction(800),  ShutterFraction(640),
    ShutterFraction(500),  ShutterFraction(400),  ShutterFraction(320),
    ShutterFraction(250),  ShutterFraction(200),  ShutterFraction(160),
    ShutterFraction(125),  ShutterFraction(100),  ShutterFraction(80),
    ShutterFraction(60),   ShutterFraction(50),   ShutterFraction(40),
    ShutterFraction(30),   ShutterFraction(25),   ShutterFraction(20),
    ShutterFraction(15),   ShutterFraction(13),   ShutterFraction(10),
    ShutterFraction(8),    ShutterFraction(6),    ShutterFraction(5),
    ShutterFraction(4),
    ShutterSeconds(0, 3),  ShutterSeconds(0, 4),  ShutterSeconds(0, 5),
    ShutterSeconds(0, 6),  ShutterSeconds(0, 8),  ShutterSeconds(1, 0),
    ShutterSeconds(1, 3),  ShutterSeconds(1, 6),  ShutterSeconds(2, 0),
    ShutterSeconds(2, 5),  ShutterSeconds(3, 2),  ShutterSeconds(4, 0),
    ShutterSeconds(5, 0),  ShutterSeconds(6, 0),  ShutterSeconds(8, 0),
    ShutterSeconds(10, 0), ShutterSeconds(13, 0), ShutterSeconds(15, 0),
    ShutterSeconds(20, 0), ShutterSeconds(25, 0), ShutterSeconds(30, 0)>>

(***************************************************************************)
(* Bounds of the input sets.                                               *)
(***************************************************************************)
MaxFraction == 40    \* Shutter(n), n in 1..MaxFraction
MaxSeconds  == 30    \* Shutter(s, h), s in 0..MaxSeconds
MaxTenths   == 9     \*                h in 0..MaxTenths
MaxStops    == 32    \* toStringWithFilterStops(stops), stops in 0..MaxStops
MaxShutters == 14    \* length of the shutter list given to displayCsvTable
MaxSortLen  == 3     \* length of the list given to sortFilters
MaxSortStops == 2    \* stops of the filters in that list

(***************************************************************************)
(* State.                                                                  *)
(***************************************************************************)
VARIABLES
    pc,              \* position of main, or of the call under check
    combinedFilters, \* std::vector<Filter> combinedFilters
    shuttersCount,   \* shutters.size()
    i,               \* index of the row loop of the table being displayed
    mdOut,           \* lines written by displayMarkdownTable
    csvOut,          \* lines written by displayCsvTable
    time,            \* Shutter::time of the shutter under check
    stops,           \* argument of toStringWithFilterStops
    input,           \* argument handed to doubleToString
    result           \* text returned by toString / toStringWithFilterStops

vars == <<pc, combinedFilters, shuttersCount, i, mdOut, csvOut,
          time, stops, input, result>>

fmtVars == <<time, stops, input, result>>

Line(kind, cells) == [kind |-> kind, cells |-> cells]

DataRows(out) == SelectSeq(out, LAMBDA l : l.kind = "row")

\* A row loop that stops one row early.
MoreRowsShort(index, count) == index + 1 < count

\* The condition of the row loops: for (const auto &shutter : shutters) and
\* for (int i = 0; i < shuttersCount; i++)
MoreRows(index, count) == index < count

\* Where a row loop over count shutters goes first.
LoopPc(count, body, exit) == IF MoreRows(0, count) THEN body ELSE exit

(***************************************************************************)
(* populateFiltersWithGeneratedCombinations                                *)
(***************************************************************************)
RECURSIVE SingleLoop(_)
SingleLoop(k) == IF k > Len(filters) THEN << >>
                 ELSE <<filters[k]>> \o SingleLoop(k + 1)

\* for (i = 0; i < 4-1; i++) for (j = i+1; j < 4; j++)
RECURSIVE PairLoop(_, _)
PairLoop(a, b) ==
    IF a >= 4 - 1 THEN << >>
    ELSE IF b >= 4 THEN PairLoop(a + 1, a + 2)
    ELSE <<FilterPlus(filters[a + 1], filters[b + 1])>> \o PairLoop(a, b + 1)

populateFiltersWithGeneratedCombinations ==
    /\ pc = "populateGenerated"
    /\ combinedFilters' = combinedFilters \o SingleLoop(1) \o PairLoop(0, 1)
    /\ pc' = "populateHandPicked"
    /\ UNCHANGED <<shuttersCount, i, mdOut, csvOut, fmtVars>>

(***************************************************************************)
(* populateFiltersWithHandPickedCombinations                               *)
(***************************************************************************)
HandPicked ==
    <<FilterPlus(FilterPlus(filters[1], filters[2]), filters[4]),
      FilterPlus(FilterPlus(filters[1], filters[3]), filters[4])>>

populateFiltersWithHandPickedCombinations ==
    /\ pc = "populateHandPicked"
    /\ combinedFilters' = combinedFilters \o HandPicked
    /\ pc' = "sortFilters"
    /\ UNCHANGED <<shuttersCount, i, mdOut, csvOut, fmtVars>>

(***************************************************************************)
(* sortFilters: std::sort orders by operator< and leaves the order of      *)
(* equivalent elements unspecified, so every ordered arrangement is a      *)
(* possible outcome.                                                       *)
(***************************************************************************)
RemoveAt(s, k) == SubSeq(s, 1, k - 1) \o SubSeq(s, k + 1, Len(s))

RECURSIVE SortOutcomes(_)
SortOutcomes(s) ==
    IF s = << >> THEN {<< >>}
    ELSE LET least == {k \in 1..Len(s) :
                          \A l \in 1..Len(s) : ~FilterLess(s[l], s[k])}
         IN  UNION {{<<s[k]>> \o t : t \in SortOutcomes(RemoveAt(s, k))} :
                      k \in least}

sortFilters ==
    /\ pc = "sortFilters"
    /\ combinedFilters' \in SortOutcomes(combinedFilters)
    /\ pc' = "displayMarkdownTable"
    /\ UNCHANGED <<shuttersCount, i, mdOut, csvOut, fmtVars>>

(***************************************************************************)
(* displayMarkdownTable                                                    *)
(***************************************************************************)
RECURSIVE LabelCells(_)
LabelCells(k) == IF k > Len(combinedFilters) THEN << >>
                 ELSE <<Filter_toString(combinedFilters[k])>> \o LabelCells(k + 1)

RECURSIVE DashCells(_)
DashCells(k) == IF k > Len(combinedFilters) THEN << >>
                ELSE <<Fill("-", 7)>> \o DashCells(k + 1)

\* The cells of one shutter for the combinations k.. : each is one of the
\* outcomes of toStringWithFilterStops.
RECURSIVE StopCells(_, _, _)
StopCells(shutter, k, ub) ==
    IF k > Len(combinedFilters) THEN {<< >>}
    ELSE {<<c>> \o rest :
             c \in toStringWithFilterStops(shutter, combinedFilters[k].stops, ub),
             rest \in StopCells(shutter, k + 1, ub)}

RowCells(shutter, ub) ==
    {<<Shutter_toString(shutter, ub)>> \o cells : cells \in StopCells(shutter, 1, ub)}

\* displayMarkdownTableHeader, called first by displayMarkdownTable
displayMarkdownTableHeader ==
    /\ pc = "displayMarkdownTable"
    /\ mdOut' = mdOut
           \o <<Line("header", <<<<"n", "o", " ", "N", "D", " ", " ">>>> \o LabelCells(1)),
                Line("separator", <<Fill("-", 7)>> \o DashCells(1))>>
    /\ i' = 0
    /\ pc' = LoopPc(shuttersCount, "markdownRows", "done")
    /\ UNCHANGED <<combinedFilters, shuttersCount, csvOut, fmtVars>>

\* one pass of the loop over the shutters
displayMarkdownTable ==
    /\ pc = "markdownRows"
    /\ MoreRows(i, shuttersCount)
    /\ \E ub \in OutOfRangeInts : \E cells \in RowCells(shutters[i + 1], ub) :
           mdOut' = Append(mdOut, Line("row", cells))
    /\ i' = IF MoreRows(i + 1, shuttersCount) THEN i + 1 ELSE 0
    /\ pc' = IF MoreRows(i + 1, shuttersCount) THEN "markdownRows"
             ELSE LoopPc(shuttersCount, "displayCsvTable", "done")
    /\ UNCHANGED <<combinedFilters, shuttersCount, csvOut, fmtVars>>

(***************************************************************************)
(* displayCsvTable                                                         *)
(***************************************************************************)
displayCsvHeader(out) ==
    out \o <<Line("blank", << >>),
             Line("header", <<<<" ", " ", "n", "o", " ", "N", "D">>>> \o LabelCells(1))>>

displayCsvRow(out, cells) == Append(out, Line("row", cells))

\* What (i % middle) == 0 may do.  With middle = 0 the remainder is undefined
\* behaviour: the division traps, or the test goes either way.
HeaderTest(index, middle) ==
    IF middle = 0 THEN {"trap", "header", "row"}
    ELSE IF index % middle = 0 THEN {"header"}
    ELSE {"row"}

\* one pass of the loop over the shutters
displayCsvTable ==
    /\ pc = "displayCsvTable"
    /\ MoreRows(i, shuttersCount)
    /\ LET middle == shuttersCount \div 2
       IN  \E test \in HeaderTest(i, middle) :
           \E ub \in OutOfRangeInts : \E cells \in RowCells(shutters[i + 1], ub) :
               /\ csvOut' = IF test = "trap" THEN csvOut
                            ELSE IF test = "header"
                            THEN displayCsvRow(displayCsvHeader(csvOut), cells)
                            ELSE displayCsvRow(csvOut, cells)
               /\ i' = IF test = "trap" THEN i ELSE i + 1
               /\ pc' = IF test = "trap" THEN "trapped"
                        ELSE IF MoreRows(i + 1, shuttersCount) THEN "displayCsvTable"
                        ELSE "done"
    /\ UNCHANGED <<combinedFilters, shuttersCount, mdOut, fmtVars>>

(***************************************************************************)
(* The program: main.                                                      *)
(***************************************************************************)
NoCall == /\ time = shutters[1]
          /\ stops = 0
          /\ input = shutters[1]
          /\ result = << >>

Init ==
    /\ pc = "populateGenerated"
    /\ combinedFilters = << >>
    /\ shuttersCount = Len(shutters)
    /\ i = 0
    /\ mdOut = << >>
    /\ csvOut = << >>
    /\ NoCall

Next ==
    \/ populateFiltersWithGeneratedCombinations
    \/ populateFiltersWithHandPickedCombinations
    \/ sortFilters
    \/ displayMarkdownTableHeader
    \/ displayMarkdownTable
    \/ displayCsvTable

Spec == Init /\ [][Next]_vars

(***************************************************************************)
(* Calls of Shutter::toString and Shutter::toStringWithFilterStops on      *)
(* shutters built by the two constructors.                                 *)
(***************************************************************************)
ShutterInputs ==
    {ShutterFraction(n) : n \in 1..MaxFraction}
        \cup {shutters[k] : k \in 1..Len(shutters)}
        \cup {t \in {ShutterSeconds(s, h) : s \in 0..MaxSeconds, h \in 0..MaxTenths} :
                 t.num > 0}

MainIdle == /\ combinedFilters = << >>
            /\ shuttersCount = Len(shutters)
            /\ i = 0
            /\ mdOut = << >>
            /\ csvOut = << >>

InitFmt ==
    /\ pc = "call"
    /\ time \in ShutterInputs
    /\ stops \in 0..MaxStops
    /\ input = time
    /\ result = << >>
    /\ MainIdle

CallToString ==
    /\ pc = "call"
    /\ input' = time
    /\ \E ub \in OutOfRangeInts : result' = Shutter_toString(time, ub)
    /\ pc' = "toString"
    /\ UNCHANGED <<combinedFilters, shuttersCount, i, mdOut, csvOut, time, stops>>

CallToStringWithFilterStops ==
    /\ pc = "call"
    /\ \E t \in increasedShutterTime(time, stops) : \E ub \in OutOfRangeInts :
           /\ input' = t
           /\ result' = doubleToString(t, ub)
    /\ pc' = "toStringWithFilterStops"
    /\ UNCHANGED <<combinedFilters, shuttersCount, i, mdOut, csvOut, time, stops>>

NextFmt == CallToString \/ CallToStringWithFilterStops

SpecFmt == InitFmt /\ [][NextFmt]_vars

(***************************************************************************)
(* sortFilters on any contents of combinedFilters.                         *)
(***************************************************************************)
SortNames == {<<"a">>, <<"b">>}

SortInputs == {Filter(n, name) : n \in 1..MaxSortStops, name \in SortNames}

SortLists == UNION {[1..n -> SortInputs] : n \in 0..MaxSortLen}

InitSort ==
    /\ pc = "sortFilters"
    /\ combinedFilters \in SortLists
    /\ shuttersCount = Len(shutters)
    /\ i = 0
    /\ mdOut = << >>
    /\ csvOut = << >>
    /\ NoCall

NextSort == sortFilters

SpecSort == InitSort /\ [][NextSort]_vars

(***************************************************************************)
(* displayCsvTable on a shutter list of any length: the first shuttersCount *)
(* entries of the table.                                                   *)
(***************************************************************************)
InitCsv ==
    /\ shuttersCount \in 0..MaxShutters
    /\ pc = LoopPc(shuttersCount, "displayCsvTable", "done")
    /\ combinedFilters \in SortOutcomes(SingleLoop(1) \o PairLoop(0, 1) \o HandPicked)
    /\ i = 0
    /\ mdOut = << >>
    /\ csvOut = << >>
    /\ NoCall

NextCsv == displayCsvTable

SpecCsv == InitCsv /\ [][NextCsv]_vars

(***************************************************************************)
(* Vocabulary of the properties: real-number comparison of doubles and the *)
(* shapes of the formatted texts.                                          *)
(***************************************************************************)
Real(a, b) == [num |-> a, den |-> b, exp |-> 0]

\* d * 2^n as a real number
RealTimesPow2(d, n) == [num |-> d.num, den |-> d.den, exp |-> d.exp + n]

\* |a| <= |b| for a, b # 0
MagLeq(a, b) ==
    LET l == Abs(a.num) * b.den
        r == Abs(b.num) * a.den
        e == a.exp - b.exp
    IN  IF e >= 0 THEN e <= 30 /\ 2 ^ e <= r \div l
        ELSE (-e) > 30 \/ (l + r - 1) \div r <= 2 ^ (-e)

ValueLeq(a, b) ==
    IF a.num <= 0 /\ b.num >= 0 THEN TRUE
    ELSE IF a.num >= 0 /\ b.num <= 0 THEN FALSE
    ELSE IF a.num > 0 THEN MagLeq(a, b)
    ELSE MagLeq(b, a)

ValueEq(a, b) == ValueLeq(a, b) /\ ValueLeq(b, a)

ValueLess(a, b) == ~ValueLeq(b, a)

\* num * 2^exp of a positive double of at most 30 s
Numerator(d) == d.num * 2 ^ d.exp

IsDigit(c) == c \in {Digits[k] : k \in 1..10}

CountChar(text, c) == Cardinality({k \in 1..Len(text) : text[k] = c})

\* a bare integer, right aligned
IsFractionNotation(text) ==
    /\ Len(text) >= 1
    /\ IsDigit(text[Len(text)])
    /\ \A k \in 1..Len(text) : text[k] = " " \/ IsDigit(text[k])

\* S"T
IsSecondsNotation(text) ==
    /\ CountChar(text, "\"") = 1
    /\ \A k \in 1..Len(text) : text[k] \in {" ", "\""} \/ IsDigit(text[k])
    /\ IsDigit(text[Len(text)])

\* M' SS"
IsMinutesSeconds(text) ==
    /\ CountChar(text, "'") = 1
    /\ CountChar(text, "h") = 0
    /\ text[Len(text)] = "\""

\* Hh MM'
IsHoursMinutes(text) ==
    /\ CountChar(text, "h") = 1
    /\ CountChar(text, "\"") = 0
    /\ text[Len(text)] = "'"

IsSentinel(text) == text = <<"x", " ", " ", " ", " ", " ", " ">>

IsBulbNotation(text) ==
    IsMinutesSeconds(text) \/ IsHoursMinutes(text) \/ IsSentinel(text)

\* The position of the seconds mark in a text S"T
RECURSIVE MarkAt(_, _)
MarkAt(text, k) == IF k > Len(text) \/ text[k] = "\"" THEN k ELSE MarkAt(text, k + 1)

Returned == pc \in {"toString", "toStringWithFilterStops"}

(***************************************************************************)
(* C1: for every duration d > 0 the formatter uses the fraction notation   *)
(* (the bare integer round(1/d)) exactly when d <= 0.25, the seconds       *)
(* notation exactly when 0.25 < d <= 30 and a BULB notation exactly when   *)
(* d > 30; 0.25 gives the fraction 4 and 30.0 gives 30"0.                   *)
(***************************************************************************)
C1_NotationBoundaries ==
    (Returned /\ input.num > 0) =>
        /\ IsFractionNotation(result) <=> ValueLeq(input, Real(1, 4))
        /\ IsSecondsNotation(result)
               <=> (ValueLess(Real(1, 4), input) /\ ValueLeq(input, Real(30, 1)))
        /\ IsBulbNotation(result) <=> ValueLess(Real(30, 1), input)
        /\ ValueLeq(input, Real(1, 4)) =>
               result = FormatInt((2 * input.den + Numerator(input))
                                      \div (2 * Numerator(input)), 7)
        /\ ValueEq(input, Real(1, 4)) =>
               result = <<" ", " ", " ", " ", " ", " ", "4">>
        /\ ValueEq(input, Real(30, 1)) =>
               result = <<" ", " ", " ", "3", "0", "\"", "0">>

\* 15 s under one stop is exactly 30 s and is printed in the seconds notation
C1_Witness ==
    /\ pc = "toStringWithFilterStops"
    /\ stops = 1
    /\ ValueEq(input, Real(30, 1))
    /\ IsSecondsNotation(result)

(***************************************************************************)
(* C2 (as stated): above 30 s the form follows the duration: at most 60    *)
(* minutes gives M' SS", more than 60 minutes and at most 99 hours gives   *)
(* Hh MM', more than 99 hours gives the sentinel.                          *)
(***************************************************************************)
C2_BulbBandsByDuration ==
    (Returned /\ ValueLess(Real(30, 1), input)) =>
        /\ ValueLeq(input, Real(3600, 1)) => IsMinutesSeconds(result)
        /\ (ValueLess(Real(3600, 1), input) /\ ValueLeq(input, Real(356400, 1)))
               => IsHoursMinutes(result)
        /\ ValueLess(Real(356400, 1), input) => IsSentinel(result)

(***************************************************************************)
(* C3 (as stated): for 0.25 < d <= 30 the text is S"T with S = floor(d),   *)
(* T = round((d - S) * 10), and T is a single digit, 0 <= T <= 9.          *)
(***************************************************************************)
C3_TenthsSingleDigit ==
    (Returned /\ ValueLess(Real(1, 4), input) /\ ValueLeq(input, Real(30, 1))) =>
        LET S == Numerator(input) \div input.den
            T == (20 * (Numerator(input) % input.den) + input.den)
                     \div (2 * input.den)
        IN  /\ result = FormatInt(S, 5) \o <<"\"">> \o NatToText(T)
            /\ T <= 9
            /\ Len(result) - MarkAt(result, 1) = 1

(***************************************************************************)
(* C4 (as stated): for every stop count n >= 0 the duration handed to the  *)
(* formatter by toStringWithFilterStops is time * 2^n, and it does not     *)
(* decrease when n grows.                                                  *)
(***************************************************************************)
C4_AppliedStopsExact ==
    pc = "toStringWithFilterStops" =>
        /\ ValueEq(input, RealTimesPow2(time, stops))
        /\ stops >= 1 =>
               \A before \in increasedShutterTime(time, stops - 1) :
                   ValueLeq(before, input)

(***************************************************************************)
(* C5: after the two populate functions combinedFilters holds 12 entries:  *)
(* the 4 filters, the 6 pairs i < j in index order and the triples 0+1+3   *)
(* and 0+2+3; stops are the sums and labels the member labels joined by    *)
(* single spaces in argument order.                                        *)
(***************************************************************************)
Members == <<<<1>>, <<2>>, <<3>>, <<4>>,
             <<1, 2>>, <<1, 3>>, <<1, 4>>, <<2, 3>>, <<2, 4>>, <<3, 4>>,
             <<1, 2, 4>>, <<1, 3, 4>>>>

RECURSIVE SumStops(_)
SumStops(m) == IF m = << >> THEN 0 ELSE filters[Head(m)].stops + SumStops(Tail(m))

RECURSIVE JoinNames(_)
JoinNames(m) == IF Len(m) = 1 THEN filters[m[1]].name
                ELSE filters[Head(m)].name \o <<" ">> \o JoinNames(Tail(m))

C5_TwelveCombinations ==
    /\ pc = "populateHandPicked" =>
           /\ Len(combinedFilters) = 10
           /\ \A k \in 1..10 :
                  combinedFilters[k] = Filter(SumStops(Members[k]), JoinNames(Members[k]))
    /\ pc = "sortFilters" =>
           /\ Len(combinedFilters) = 12
           /\ \A k \in 1..12 :
                  combinedFilters[k] = Filter(SumStops(Members[k]), JoinNames(Members[k]))
           /\ combinedFilters[11] = Filter(18, <<"1", "k", " ", "6", "4", " ", "4">>)

C5_Witness ==
    /\ pc = "sortFilters"
    /\ Len(combinedFilters) = 12
    /\ combinedFilters[12].stops = 15

(***************************************************************************)
(* C6 (as stated): sortFilters leaves a permutation of the list that is    *)
(* non-decreasing in stops and keeps equal-stops entries in their original *)
(* order.                                                                  *)
(***************************************************************************)
RECURSIVE StableSorted(_, _)
StableSorted(list, n) ==
    IF n > 30 THEN << >>
    ELSE SelectSeq(list, LAMBDA f : f.stops = n) \o StableSorted(list, n + 1)

C6_SortIsStable ==
    [][pc = "sortFilters" => combinedFilters' = StableSorted(combinedFilters, 0)]_vars

(***************************************************************************)
(* C7 (as stated): for a shutter list of any length N (two rows or more    *)
(* here) displayCsvTable writes the header exactly twice, right before     *)
(* data row 0 and right before data row N \div 2, writes the N rows in     *)
(* list order and ends.                                                    *)
(***************************************************************************)
\* the data row index each header line precedes
RECURSIVE HeaderPlaces(_, _, _)
HeaderPlaces(out, k, rows) ==
    IF k > Len(out) THEN << >>
    ELSE IF out[k].kind = "header" THEN <<rows>> \o HeaderPlaces(out, k + 1, rows)
    ELSE IF out[k].kind = "row" THEN HeaderPlaces(out, k + 1, rows + 1)
    ELSE HeaderPlaces(out, k + 1, rows)

C7_HeaderExactlyTwice ==
    shuttersCount >= 2 =>
        /\ pc # "trapped"
        /\ pc = "done" =>
               /\ HeaderPlaces(csvOut, 1, 0) = <<0, shuttersCount \div 2>>
               /\ Len(DataRows(csvOut)) = shuttersCount

(***************************************************************************)
(* C8: combinedFilters is not modified after sortFilters, and every data   *)
(* row i of the Markdown table and of the CSV table is format(time_i)      *)
(* followed, for each combination j in sorted order, by                    *)
(* format(time_i * 2^stops_j): the two tables hold the same cells.         *)
(***************************************************************************)
AfterSort == pc \in {"displayMarkdownTable", "markdownRows", "displayCsvTable", "done"}

ExpectedCell(k, j) ==
    IF j = 1 THEN doubleToString(shutters[k], INT_MAX)
    ELSE doubleToString(RealTimesPow2(shutters[k], combinedFilters[j - 1].stops), INT_MAX)

RowsAsExpected(rows) ==
    \A k \in 1..Len(rows) :
        /\ Len(rows[k].cells) = Len(combinedFilters) + 1
        /\ \A j \in 1..Len(rows[k].cells) : rows[k].cells[j] = ExpectedCell(k, j)

C8_TablesAgree ==
    /\ [](AfterSort =>
            /\ RowsAsExpected(DataRows(mdOut))
            /\ RowsAsExpected(DataRows(csvOut))
            /\ \A k \in 1..Len(DataRows(csvOut)) :
                   DataRows(csvOut)[k] = DataRows(mdOut)[k])
    /\ [][AfterSort => combinedFilters' = combinedFilters]_vars

C8_Witness ==
    /\ pc = "done"
    /\ Len(DataRows(csvOut)) = Len(shutters)
    /\ DataRows(csvOut) = DataRows(mdOut)
    /\ IsHoursMinutes(DataRows(csvOut)[31].cells[13])
    /\ IsSentinel(DataRows(mdOut)[Len(shutters)].cells[13])

(***************************************************************************)
(* C9 (as stated): the shutter table holds exactly 36 values and each      *)
(* rendered table contains exactly 36 data rows.                           *)
(***************************************************************************)
C9_ThirtySixShutters ==
    /\ shuttersCount = 36
    /\ pc \in {"displayCsvTable", "done"} => Len(DataRows(mdOut)) = 36
    /\ pc = "done" => Len(DataRows(csvOut)) = 36

(***************************************************************************)
(* C9 (amended): the shutter table is a fixed list of exactly 52 values    *)
(* that no operation modifies, so each rendered table contains exactly 52  *)
(* data rows.                                                              *)
(***************************************************************************)
C9_FiftyTwoShutters ==
    /\ Len(shutters) = 52
    /\ shuttersCount = 52
    /\ pc \in {"displayCsvTable", "done"} => Len(DataRows(mdOut)) = 52
    /\ pc = "done" => Len(DataRows(csvOut)) = 52

C9_Witness ==
    /\ pc = "done"
    /\ Len(DataRows(mdOut)) = 52
    /\ Len(DataRows(csvOut)) = 52

(***************************************************************************)
(* C10: the 12 combinations of the filters 10, 6, 3, 2 have distinct stop  *)
(* totals; after sortFilters the stops are 2, 3, 5, 6, 8, 9, 10, 12, 13,   *)
(* 15, 16, 18 however ties are broken, and with at most 18 stops and at    *)
(* most 30 s per shutter, 1 << stops and ceil(30 * 2^18) fit a 32-bit int. *)
(***************************************************************************)
RECURSIVE StopsOf(_)
StopsOf(list) == IF list = << >> THEN << >>
                 ELSE <<Head(list).stops>> \o StopsOf(Tail(list))

C10_DistinctStops ==
    /\ pc = "sortFilters" =>
           \A a, b \in 1..Len(combinedFilters) :
               a # b => combinedFilters[a].stops # combinedFilters[b].stops
    /\ AfterSort =>
           /\ StopsOf(combinedFilters) = <<2, 3, 5, 6, 8, 9, 10, 12, 13, 15, 16, 18>>
           /\ \A k \in 1..Len(combinedFilters) :
                  /\ combinedFilters[k].stops <= 18
                  /\ ShiftLeftOne(combinedFilters[k].stops)
                         = {[sgn |-> 1, exp |-> combinedFilters[k].stops]}
                  /\ \A n \in 1..Len(shutters) :
                         /\ ValueLeq(shutters[n], Real(30, 1))
                         /\ ~Whole(TimesInt(shutters[n],
                                    ShiftInRange(combinedFilters[k].stops))).big
           /\ 30 * 2 ^ 18 <= INT_MAX

C10_Witness ==
    /\ pc = "displayMarkdownTable"
    /\ Len(combinedFilters) = 12
    /\ combinedFilters[12].stops = 18

====
